---- MODULE Spec2Model ----
(***************************************************************************)
(* Fold orchestration of the HuBMAP segmentation pipeline:                 *)
(*   training/main.py   train, validate, k_fold                            *)
(*   inference/main.py  validate_inf, k_fold_inf                           *)
(* A behaviour is one k_fold run on a metadata frame df, followed by one   *)
(* k_fold_inf run with the same config, df and log folder.  Strings are    *)
(* tuples of one-character strings, so that str + str, f-strings,          *)
(* str.split and the "in" substring test are computed as Python does.      *)
(* Python's None is the empty tuple and a present optional value x is <<x>>.*)
(* The collaborators that are not part of the two files (fit, the tile     *)
(* predictors, plot_thresh_scores, tweak_threshold, dice_scores_img) are   *)
(* uninterpreted: a Dice score is the record of what it was computed from, *)
(* a tuned threshold is any member of TunedThresholds, and each call may   *)
(* raise.                                                                  *)
(***************************************************************************)
EXTENDS Integers, Sequences, FiniteSets, TLC

VARIABLES
    config,        \* [selected_folds, save_weights, decoder, encoder]
    df,            \* the metadata frame: a tuple of rows [index, cv, tile_name]
    log_folder,    \* None or <<path>>
    folds,         \* the local folds of k_fold and of k_fold_inf
    pc,            \* position of the running orchestrator
    i,             \* loop index of "for i, fold in enumerate(folds)"
    cvs,           \* k_fold's cvs list
    df_train,      \* k_fold's df_train of the fold in hand
    df_val,        \* df_val of the fold in hand (k_fold and k_fold_inf)
    held,          \* fold models alive: referenced by a local or under construction
    meter,         \* k_fold's meter: None or <<fold>>
    history,       \* k_fold's history: None or <<fold>>
    val_images,    \* the val_images argument of the validate / validate_inf call
    k,             \* number of images the running validate call has finished
    scores,        \* validate's scores list
    thresholds,    \* validate's thresholds list
    files,         \* the file system below the log folder: records [path, data]
    started,       \* fold indices in the order their "Fold i+1 / n" banner was printed by k_fold
    validated,     \* fold indices in the order k_fold's validate call returned
    kf_result,     \* "running", "meter" (return meter), "reported" (fell off the loop), "failed"
    report,        \* None, or <<cvs>> as printed by the Average Dice CV line
    inf_args,      \* k_fold_inf's [use_full_size, global_threshold, save]
    built,         \* fold indices k_fold_inf called define_model for
    loaded,        \* weights in k_fold_inf's model: None or <<data of the file loaded>>
    loads,         \* [fold, data] of every load_model_weights call that returned
    global_threshold, \* validate_inf's local global_threshold: None or <<t>>
    call_log,      \* per image of the running validate_inf call: [img, threshold, used]
    call_scores,   \* validate_inf's scores list
    inf_scores,    \* k_fold_inf's scores list
    inf_result,    \* None, or <<scores>> returned by k_fold_inf
    raised         \* None, or <<[in, fold]>>: the exception a collaborator raised

vars == <<config, df, log_folder, folds, pc, i, cvs, df_train, df_val, held, meter, history,
          val_images, k, scores, thresholds, files, started, validated, kf_result,
          report, inf_args, built, loaded, loads, global_threshold, call_log,
          call_scores, inf_scores, inf_result, raised>>

-----------------------------------------------------------------------------
(* Bounds of the model *)

\* most rows of df
MaxRows == 3
\* cv_column values are 1..MaxCv; selected fold indices are drawn from 0..MaxCv-1
MaxCv == 2

-----------------------------------------------------------------------------
(* Python values *)

None == <<>>

Some(x) == <<x>>

Digits == <<"0", "1", "2", "3", "4", "5", "6", "7", "8", "9">>

RECURSIVE Str(_)
\* str(n) of a non-negative int, as an f-string's {n} formats it
Str(n) ==
    IF n < 10 THEN <<Digits[n + 1]>>
    ELSE Str(n \div 10) \o <<Digits[(n % 10) + 1]>>

\* needle in hay
Contains(hay, needle) ==
    \E s \in 1..(Len(hay) - Len(needle) + 1) :
        SubSeq(hay, s, s + Len(needle) - 1) = needle

\* x.split(sep)[0]
SplitFirst(x, sep) ==
    LET at == {j \in 1..Len(x) : x[j] = sep}
    IN  IF at = {} THEN x
        ELSE SubSeq(x, 1, (CHOOSE j \in at : \A j2 \in at : j <= j2) - 1)

\* pandas' Series.unique(): the distinct values in order of first appearance
Unique(s) ==
    LET F[n \in 0..Len(s)] ==
            IF n = 0 THEN <<>>
            ELSE IF \E j \in 1..Len(F[n - 1]) : F[n - 1][j] = s[n]
                 THEN F[n - 1]
                 ELSE Append(F[n - 1], s[n])
    IN  F[Len(s)]

Column(frame, name) == [r \in 1..Len(frame) |-> frame[r][name]]

Range(s) == {s[j] : j \in 1..Len(s)}

-----------------------------------------------------------------------------
(* Literals of the two files *)

S_us == "_"
S_pt == <<".", "p", "t">>
S_npy == <<".", "n", "p", "y">>
S_csv == <<".", "c", "s", "v">>
S_efficientnet == <<"e", "f", "f", "i", "c", "i", "e", "n", "t", "n", "e", "t">>
S_pred_mask_ == <<"p", "r", "e", "d", "_", "m", "a", "s", "k", "_">>
S_history_ == <<"h", "i", "s", "t", "o", "r", "y", "_">>
S_global_pred_ == <<"g", "l", "o", "b", "a", "l", "_", "p", "r", "e", "d", "_">>
S_pred_ == <<"p", "r", "e", "d", "_">>

\* threshold, score = 0.4, 0 on the full-size path, in hundredths
FullSizeThreshold == 40

-----------------------------------------------------------------------------
(* Inputs *)

\* tile_name of row r: "<image>_<tile number>"
TilePool == << <<"a", "_", "0">>, <<"b", "_", "0">>, <<"a", "_", "1">>,
               <<"c", "_", "0">>, <<"b", "_", "1">> >>

Frames ==
    UNION { { [r \in 1..n |-> [index |-> r - 1, cv |-> c[r], tile_name |-> TilePool[r]]] :
                c \in [1..n -> 1..MaxCv] } : n \in 0..MaxRows }

Decoders == { <<"U", "n", "e", "t">> }

Encoders == { <<"r", "3", "4">>, S_efficientnet \o <<"-", "b", "0">> }

\* without save_weights no file name holds the encoder, so one encoder stands for all
Configs ==
    {c \in [selected_folds : SUBSET (0..(MaxCv - 1)), save_weights : BOOLEAN,
            decoder : Decoders, encoder : Encoders] :
        ~c.save_weights => ~Contains(c.encoder, S_efficientnet)}

LogFolders == { None, Some(<<"l", "o", "g", "/">>) }

\* thresholds plot_thresh_scores / tweak_threshold may return, in hundredths
TunedThresholds == {30, 50}

InfArgs ==
    [use_full_size : BOOLEAN, global_threshold : {None, Some(45)}, save : BOOLEAN]

-----------------------------------------------------------------------------
(* Expressions of k_fold and k_fold_inf *)

\* df[config.cv_column].unique()
Folds == Unique(Column(df, "cv"))

\* len(folds)
NFolds == Len(folds)

\* the fold value enumerate(folds) pairs with index idx
FoldAt(idx) == folds[idx + 1]

\* a faulty variant of IsSelected that processes every fold
IsSelectedAlways(idx) == TRUE

\* i in config.selected_folds
IsSelected(idx) == idx \in config.selected_folds

\* a faulty variant of DfTrain that leaves the validation rows in
DfTrainAll(fold) == df

\* df[df[config.cv_column] != fold].reset_index()
DfTrain(fold) == SelectSeq(df, LAMBDA r : r.cv # fold)

\* df[df[config.cv_column] == fold].reset_index()
DfVal(fold) == SelectSeq(df, LAMBDA r : r.cv = fold)

\* df_val["tile_name"].apply(lambda x: x.split("_")[0]).unique()
ValImages(frame) ==
    Unique([r \in 1..Len(frame) |-> SplitFirst(frame[r].tile_name, S_us)])

\* name = f"{config.decoder}_{config.encoder}_{fold}.pt"
TrainWeightsName(fold) ==
    config.decoder \o <<S_us>> \o config.encoder \o <<S_us>> \o Str(fold) \o S_pt

\* a faulty variant of InfWeightsPath that numbers the folds from 1, as the banner does
InfWeightsPathOneBased(idx) ==
    log_folder[1] \o config.decoder \o <<S_us>> \o config.encoder \o <<S_us>>
        \o Str(idx + 1) \o S_pt

\* log_folder + f"{config.decoder}_{config.encoder}_{i}.pt"
InfWeightsPath(idx) ==
    log_folder[1] \o config.decoder \o <<S_us>> \o config.encoder \o <<S_us>>
        \o Str(idx) \o S_pt

\* save_model_weights(model, name, cp_folder=log_folder): the file it writes
SaveModelWeightsPath(cp_folder, name) == cp_folder \o name

\* save_as_jit(model, log_folder, name, ...): the file it writes
SaveAsJitPath(folder, name) == folder \o <<"j", "i", "t", "/">> \o name

\* a faulty variant of PredMaskPath that leaves the fold index out
PredMaskPathNoIndex(idx) == log_folder[1] \o S_pred_mask_ \o S_npy

\* log_folder + f"pred_mask_{i}.npy"
PredMaskPath(idx) == log_folder[1] \o S_pred_mask_ \o Str(idx) \o S_npy

\* log_folder + f"history_{i}.csv"
HistoryPath(idx) == log_folder[1] \o S_history_ \o Str(idx) \o S_csv

\* log_folder + f"global_pred_{img}.npy"
GlobalPredPath(img) == log_folder[1] \o S_global_pred_ \o img \o S_npy

\* log_folder + f"pred_{img}.npy"
InfPredPath(img) == log_folder[1] \o S_pred_ \o img \o S_npy

\* what a file holds: kind, and the fold or image it was computed from
Data(kind, fold, img) == [kind |-> kind, fold |-> fold, img |-> img]

\* writing a file replaces what the path held
WriteFile(fs, path, data) ==
    {f \in fs : f.path # path} \cup {[path |-> path, data |-> data]}

Paths(fs) == {f.path : f \in fs}

FileAt(fs, path) == CHOOSE f \in fs : f.path = path

\* the file train has written when save_as_jit is entered (lines 82-88)
TrainSavesWeights(fs, idx) ==
    IF config.save_weights /\ log_folder # None
    THEN WriteFile(fs, SaveModelWeightsPath(log_folder[1], TrainWeightsName(idx)),
                   Data("weights", idx, <<>>))
    ELSE fs

\* the places of lines 156-166 and of validate's entry (lines 96-107) that can
\* raise for fold idx: the selection of df_train (line 158) and of df_val
\* (line 159), inside train before the model exists (lines 34-41), with the
\* model built (lines 41-80), in save_model_weights (line 84), in save_as_jit
\* (line 90), and after train returned at lines 164, 166 and 96-107
TrainFailStages(idx) ==
    {"df_train", "df_val", "define_model", "fit", "history", "val_images",
     "validate entry"}
        \cup (IF config.save_weights /\ log_folder # None
              THEN {"save_model_weights"} ELSE {})
        \cup (IF /\ config.save_weights
                 /\ log_folder # None
                 /\ ~Contains(TrainWeightsName(idx), S_efficientnet)
              THEN {"save_as_jit"} ELSE {})

\* the files train writes for fold idx (lines 82-90)
TrainSaves(fs, idx) ==
    IF config.save_weights /\ log_folder # None
    THEN LET name == TrainWeightsName(idx)
             w == WriteFile(fs, SaveModelWeightsPath(log_folder[1], name),
                            Data("weights", idx, <<>>))
         IN  IF ~Contains(name, S_efficientnet)
             THEN WriteFile(w, SaveAsJitPath(log_folder[1], name), Data("jit", idx, <<>>))
             ELSE w
    ELSE fs

\* history.dice.values[-1] of the history fit returned for fold idx
FinalDice(idx) == [dice_of_fold |-> idx]

\* a faulty variant of EarlyReturn that returns after every fold
EarlyReturnAlways == TRUE

\* log_folder is None or len(config.selected_folds) == 1
EarlyReturn == log_folder = None \/ Cardinality(config.selected_folds) = 1

\* a faulty variant of Propagate: the loop catches the exception and goes on
Recover(resume) == resume

\* neither file has a try: an exception leaves the orchestrator, whatever
\* position (resume) a handler would have gone on from
Propagate(resume) == "failed"

\* a faulty variant of ExtendScores that keeps only the last fold's scores
ExtendScoresOverwrite(old, new) == new

\* scores += validate_inf(...)
ExtendScores(old, new) == old \o new

-----------------------------------------------------------------------------
(* Initial state: k_fold(config, df, log_folder) is entered and line 151 has run *)

Init ==
    /\ config \in Configs
    /\ df \in Frames
    /\ log_folder \in LogFolders
    /\ folds = Folds
    /\ pc = "kf_loop"
    /\ i = 0
    /\ cvs = <<>>
    /\ df_train = <<>>
    /\ df_val = <<>>
    /\ held = {}
    /\ meter = None
    /\ history = None
    /\ val_images = <<>>
    /\ k = 0
    /\ scores = <<>>
    /\ thresholds = <<>>
    /\ files = {}
    /\ started = <<>>
    /\ validated = <<>>
    /\ kf_result = "running"
    /\ report = None
    /\ inf_args = [use_full_size |-> TRUE, global_threshold |-> None, save |-> FALSE]
    /\ built = {}
    /\ loaded = None
    /\ loads = {}
    /\ global_threshold = None
    /\ call_log = <<>>
    /\ call_scores = <<>>
    /\ inf_scores = <<>>
    /\ inf_result = None
    /\ raised = None

infVars == <<inf_args, built, loaded, loads, global_threshold, call_log, call_scores,
             inf_scores, inf_result>>

inputVars == <<config, df, log_folder, folds>>

-----------------------------------------------------------------------------
(* k_fold, training/main.py lines 141-188 *)

\* line 155 false: the fold is not selected
KFoldSkip ==
    /\ pc = "kf_loop"
    /\ i < NFolds
    /\ ~IsSelected(i)
    /\ i' = i + 1
    /\ UNCHANGED <<inputVars, pc, cvs, df_train, df_val, held, meter, history,
                   val_images, k, scores, thresholds, files, started, validated,
                   kf_result, report, infVars, raised>>

\* lines 156-166 and the entry of validate (lines 107-111): train returns
KFoldTrain ==
    /\ pc = "kf_loop"
    /\ i < NFolds
    /\ IsSelected(i)
    /\ started' = Append(started, i)
    /\ df_train' = DfTrain(FoldAt(i))
    /\ df_val' = DfVal(FoldAt(i))
    /\ held' = held \cup {i}
    /\ meter' = Some(i)
    /\ history' = Some(i)
    /\ files' = TrainSaves(files, i)
    /\ cvs' = Append(cvs, FinalDice(i))
    /\ val_images' = ValImages(df_val')
    /\ k' = 0
    /\ scores' = <<>>
    /\ thresholds' = <<>>
    /\ pc' = "kf_validate"
    /\ UNCHANGED <<inputVars, i, validated, kf_result, report, infVars, raised>>

\* lines 156-166 and validate's lines 96-107: a collaborator raises, at any of
\* TrainFailStages; what ran before the raise has taken effect
KFoldTrainFail ==
    /\ pc = "kf_loop"
    /\ i < NFolds
    /\ IsSelected(i)
    /\ started' = Append(started, i)
    /\ \E stage \in TrainFailStages(i) :
         LET returned == stage \in {"history", "val_images", "validate entry"}
             split == stage \in {"df_train", "df_val"}
         IN  /\ df_train' = IF stage = "df_train" THEN df_train ELSE DfTrain(FoldAt(i))
             /\ df_val' = IF split THEN df_val ELSE DfVal(FoldAt(i))
             /\ held' = IF split \/ stage = "define_model" THEN held ELSE held \cup {i}
             /\ files' = IF returned THEN TrainSaves(files, i)
                         ELSE IF stage = "save_as_jit" THEN TrainSavesWeights(files, i)
                         ELSE files
             /\ meter' = IF returned THEN Some(i) ELSE meter
             /\ history' = IF returned THEN Some(i) ELSE history
             /\ cvs' = IF stage \in {"val_images", "validate entry"}
                       THEN Append(cvs, FinalDice(i)) ELSE cvs
             /\ val_images' = IF stage = "validate entry"
                              THEN ValImages(df_val') ELSE val_images
             /\ k' = IF stage = "validate entry" THEN 0 ELSE k
             /\ raised' = Some([in |-> IF stage = "validate entry" THEN "validate"
                                       ELSE IF returned \/ split THEN "k_fold"
                                       ELSE "train",
                                fold |-> i])
    /\ pc' = Propagate("kf_loop")
    /\ kf_result' = IF pc' = "failed" THEN "failed" ELSE kf_result
    /\ UNCHANGED <<inputVars, i, scores, thresholds, validated, report, infVars>>

\* validate, lines 113-136: one image
ValidateImage ==
    /\ pc = "kf_validate"
    /\ k < Len(val_images)
    /\ LET img == val_images[k + 1]
       IN  /\ \E threshold \in TunedThresholds :
                thresholds' = Append(thresholds, threshold)
           \* scores.append(scores): the element is the list object itself
           /\ scores' = Append(scores, [kind |-> "the scores list", img |-> <<>>])
           /\ files' = IF log_folder # None
                       THEN WriteFile(files, GlobalPredPath(img), Data("global_pred", i, img))
                       ELSE files
    /\ k' = k + 1
    /\ UNCHANGED <<inputVars, pc, i, cvs, df_train, df_val, held, meter, history,
                   val_images, started, validated, kf_result, report, infVars, raised>>

\* validate, lines 115-136: the dataset, the prediction or the scoring raises
\* (lines 115-129), or np.save (line 134) or the print (line 136) does, after
\* the appends of lines 130-131
ValidateImageFail ==
    /\ pc = "kf_validate"
    /\ k < Len(val_images)
    /\ \E stage \in {"predict", "print"}
                      \cup (IF log_folder # None THEN {"np.save"} ELSE {}) :
         IF stage = "predict"
         THEN UNCHANGED <<scores, thresholds, files>>
         ELSE /\ \E threshold \in TunedThresholds :
                   thresholds' = Append(thresholds, threshold)
              /\ scores' = Append(scores, [kind |-> "the scores list", img |-> <<>>])
              /\ files' = IF stage = "print" /\ log_folder # None
                          THEN WriteFile(files, GlobalPredPath(val_images[k + 1]),
                                         Data("global_pred", i, val_images[k + 1]))
                          ELSE files
    /\ raised' = Some([in |-> "validate", fold |-> i])
    /\ pc' = Propagate("kf_validate")
    /\ kf_result' = IF pc' = "failed" THEN "failed" ELSE kf_result
    /\ k' = IF pc' = "failed" THEN k ELSE k + 1
    /\ UNCHANGED <<inputVars, i, cvs, df_train, df_val, held, meter, history,
                   val_images, started, validated, report, infVars>>

\* validate line 138 returns (scores, thresholds); k_fold drops the result
\* (lines 167-173), so both lists die
ValidateReturn ==
    /\ pc = "kf_validate"
    /\ k = Len(val_images)
    /\ validated' = Append(validated, i)
    /\ scores' = <<>>
    /\ thresholds' = <<>>
    /\ pc' = "kf_release"
    /\ UNCHANGED <<inputVars, i, cvs, df_train, df_val, held, meter, history,
                   val_images, k, files, started, kf_result, report, infVars, raised>>

\* lines 175-176: del model; torch.cuda.empty_cache()
KFoldRelease ==
    /\ pc = "kf_release"
    /\ held' = held \ {i}
    /\ pc' = "kf_save"
    /\ UNCHANGED <<inputVars, i, cvs, df_train, df_val, meter, history, val_images, k,
                   scores, thresholds, files, started, validated, kf_result, report,
                   infVars, raised>>

\* lines 178-180
KFoldSave ==
    /\ pc = "kf_save"
    /\ files' = IF log_folder # None
                THEN WriteFile(WriteFile(files, PredMaskPath(i),
                                         Data("pred_mask", meter[1], <<>>)),
                               HistoryPath(i), Data("history", history[1], <<>>))
                ELSE files
    /\ pc' = "kf_check"
    /\ UNCHANGED <<inputVars, i, cvs, df_train, df_val, held, meter, history,
                   val_images, k, scores, thresholds, started, validated, kf_result,
                   report, infVars, raised>>

\* lines 178-180: np.save raises (nothing written) or to_csv raises (pred_mask
\* written)
KFoldSaveFail ==
    /\ pc = "kf_save"
    /\ log_folder # None
    /\ \E stage \in {"np.save", "to_csv"} :
         files' = IF stage = "to_csv"
                  THEN WriteFile(files, PredMaskPath(i), Data("pred_mask", meter[1], <<>>))
                  ELSE files
    /\ raised' = Some([in |-> "save", fold |-> i])
    /\ pc' = Propagate("kf_check")
    /\ kf_result' = IF pc' = "failed" THEN "failed" ELSE kf_result
    /\ UNCHANGED <<inputVars, i, cvs, df_train, df_val, held, meter, history,
                   val_images, k, scores, thresholds, started, validated, report,
                   infVars>>

\* lines 182-183: return meter
KFoldEarlyReturn ==
    /\ pc = "kf_check"
    /\ EarlyReturn
    /\ kf_result' = "meter"
    /\ pc' = "kf_returned"
    /\ UNCHANGED <<inputVars, i, cvs, df_train, df_val, held, meter, history,
                   val_images, k, scores, thresholds, files, started, validated,
                   report, infVars, raised>>

\* lines 185-186 and the next turn of the loop: del meter; gc.collect()
KFoldNext ==
    /\ pc = "kf_check"
    /\ ~EarlyReturn
    /\ meter' = None
    /\ i' = i + 1
    /\ pc' = "kf_loop"
    /\ UNCHANGED <<inputVars, cvs, df_train, df_val, held, history, val_images, k,
                   scores, thresholds, files, started, validated, kf_result, report,
                   infVars, raised>>

\* line 188: the loop is exhausted, the average is printed
KFoldReport ==
    /\ pc = "kf_loop"
    /\ i = NFolds
    /\ report' = Some(cvs)
    /\ kf_result' = "reported"
    /\ pc' = "kf_returned"
    /\ UNCHANGED <<inputVars, i, cvs, df_train, df_val, held, meter, history,
                   val_images, k, scores, thresholds, files, started, validated,
                   infVars, raised>>

NextKFold ==
    \/ KFoldSkip
    \/ KFoldTrain
    \/ KFoldTrainFail
    \/ ValidateImage
    \/ ValidateImageFail
    \/ ValidateReturn
    \/ KFoldRelease
    \/ KFoldSave
    \/ KFoldSaveFail
    \/ KFoldEarlyReturn
    \/ KFoldNext
    \/ KFoldReport

-----------------------------------------------------------------------------
(* k_fold_inf and validate_inf, inference/main.py *)

\* dice_scores_img(global_pred, mask_truth): the score of image img predicted
\* with the weights w and binarized at threshold t
DiceScore(w, img, t) == [weights |-> w, img |-> img, threshold |-> t]

\* k_fold_inf(config, df, log_folder, ...) is entered after k_fold returned
\* (lines 111-127); k_fold's locals are gone
KFoldInfStart ==
    /\ pc = "kf_returned"
    /\ inf_args' \in InfArgs
    /\ i' = 0
    /\ folds' = Folds
    /\ inf_scores' = <<>>
    /\ meter' = None
    /\ history' = None
    /\ df_train' = <<>>
    /\ df_val' = <<>>
    /\ val_images' = <<>>
    /\ k' = 0
    /\ pc' = "inf_loop"
    /\ UNCHANGED <<config, df, log_folder, cvs, held, scores, thresholds, files, started,
                   validated, kf_result, report, built, loaded, loads, global_threshold,
                   call_log, call_scores, inf_result, raised>>

\* line 130 false
InfSkip ==
    /\ pc = "inf_loop"
    /\ i < NFolds
    /\ ~IsSelected(i)
    /\ i' = i + 1
    /\ UNCHANGED <<inputVars, pc, cvs, df_train, df_val, held, meter, history,
                   val_images, k, scores, thresholds, files, started, validated,
                   kf_result, report, infVars, raised>>

\* lines 131-141: the right-hand side define_model(...).to(config.device) is
\* evaluated while the name model still refers to the previous fold's model
InfDefineModel ==
    /\ pc = "inf_loop"
    /\ i < NFolds
    /\ IsSelected(i)
    /\ df_val' = DfVal(FoldAt(i))
    /\ val_images' = ValImages(df_val')
    /\ held' = held \cup {i}
    /\ built' = built \cup {i}
    /\ pc' = "inf_bind"
    /\ UNCHANGED <<inputVars, i, cvs, df_train, meter, history, k, scores, thresholds,
                   files, started, validated, kf_result, report, inf_args, loaded,
                   loads, global_threshold, call_log, call_scores, inf_scores,
                   inf_result, raised>>

\* lines 131-143: a step of the fold's preamble raises; what ran before the
\* raise has taken effect.  Stages: the frame selection (lines 131-132), the
\* image names (line 134), define_model (lines 136-140, no new model yet),
\* .to (line 141, the new model exists and the name model still refers to the
\* previous fold's), zero_grad and eval (lines 142-143, model is rebound to the
\* new model, which has no weights loaded)
InfDefineFail ==
    /\ pc = "inf_loop"
    /\ i < NFolds
    /\ IsSelected(i)
    /\ \E stage \in {"df_val", "val_images", "define_model", "to", "zero_grad", "eval"} :
         LET called == stage \in {"define_model", "to", "zero_grad", "eval"}
             bound == stage \in {"zero_grad", "eval"}
         IN  /\ df_val' = IF stage = "df_val" THEN df_val ELSE DfVal(FoldAt(i))
             /\ val_images' = IF called THEN ValImages(df_val') ELSE val_images
             /\ built' = IF called THEN built \cup {i} ELSE built
             /\ held' = IF bound THEN {i}
                        ELSE IF stage = "to" THEN held \cup {i}
                        ELSE held
             /\ loaded' = IF bound THEN None ELSE loaded
    /\ raised' = Some([in |-> "define_model", fold |-> i])
    /\ pc' = Propagate("inf_next")
    /\ UNCHANGED <<inputVars, i, cvs, df_train, meter, history, k, scores, thresholds,
                   files, started, validated, kf_result, report, inf_args,
                   loads, global_threshold, call_log, call_scores, inf_scores,
                   inf_result>>

\* lines 136-143: the assignment rebinds model; the previous model loses its
\* last reference
InfBindModel ==
    /\ pc = "inf_bind"
    /\ held' = {i}
    /\ loaded' = None
    /\ pc' = "inf_load"
    /\ UNCHANGED <<inputVars, i, cvs, df_train, df_val, meter, history, val_images, k,
                   scores, thresholds, files, started, validated, kf_result, report,
                   inf_args, built, loads, global_threshold, call_log, call_scores,
                   inf_scores, inf_result, raised>>

\* lines 145-147 and the entry of validate_inf (lines 33-48)
InfLoadWeights ==
    /\ pc = "inf_load"
    /\ log_folder # None
    /\ InfWeightsPath(i) \in Paths(files)
    /\ loaded' = Some(FileAt(files, InfWeightsPath(i)).data)
    /\ loads' = loads \cup {[fold |-> i, data |-> loaded'[1]]}
    /\ global_threshold' = inf_args.global_threshold
    /\ call_log' = <<>>
    /\ call_scores' = <<>>
    /\ k' = 0
    /\ pc' = "inf_validate"
    /\ UNCHANGED <<inputVars, i, cvs, df_train, df_val, held, meter, history,
                   val_images, scores, thresholds, files, started, validated,
                   kf_result, report, inf_args, built, inf_scores, inf_result, raised>>

\* lines 145-147: None + str raises TypeError, a missing file makes the load raise
InfLoadFail ==
    /\ pc = "inf_load"
    /\ \/ log_folder = None
       \/ /\ log_folder # None
          /\ InfWeightsPath(i) \notin Paths(files)
    /\ raised' = Some([in |-> "load_model_weights", fold |-> i])
    /\ pc' = Propagate("inf_next")
    /\ UNCHANGED <<inputVars, i, cvs, df_train, df_val, held, meter, history,
                   val_images, k, scores, thresholds, files, started, validated,
                   kf_result, report, infVars>>

\* validate_inf lines 33-45: a read_csv raises after the weights were loaded
InfEnterFail ==
    /\ pc = "inf_load"
    /\ log_folder # None
    /\ InfWeightsPath(i) \in Paths(files)
    /\ loaded' = Some(FileAt(files, InfWeightsPath(i)).data)
    /\ loads' = loads \cup {[fold |-> i, data |-> loaded'[1]]}
    /\ global_threshold' = inf_args.global_threshold
    /\ call_log' = <<>>
    /\ call_scores' = <<>>
    /\ k' = 0
    /\ raised' = Some([in |-> "validate_inf", fold |-> i])
    /\ pc' = Propagate("inf_next")
    /\ UNCHANGED <<inputVars, i, cvs, df_train, df_val, held, meter, history,
                   val_images, scores, thresholds, files, started, validated,
                   kf_result, report, inf_args, built, inf_scores, inf_result>>

\* validate_inf, lines 50-106: one image
InfImage ==
    /\ pc = "inf_validate"
    /\ k < Len(val_images)
    /\ LET img == val_images[k + 1]
       IN  \E threshold \in IF inf_args.use_full_size
                            THEN {FullSizeThreshold} ELSE TunedThresholds :
             \* lines 84-86
             /\ global_threshold' =
                    IF global_threshold # None THEN global_threshold ELSE Some(threshold)
             \* lines 88-92
             /\ files' = IF inf_args.save
                         THEN WriteFile(files, InfPredPath(img), Data("pred", i, img))
                         ELSE files
             \* lines 94-102
             /\ call_scores' =
                    Append(call_scores, DiceScore(loaded[1], img, global_threshold'[1]))
             /\ call_log' = Append(call_log, [img |-> img, threshold |-> threshold,
                                              used |-> global_threshold'[1]])
    /\ k' = k + 1
    /\ UNCHANGED <<inputVars, pc, i, cvs, df_train, df_val, held, meter, history,
                   val_images, scores, thresholds, started, validated, kf_result,
                   report, inf_args, built, loaded, loads, inf_scores, inf_result,
                   raised>>

\* validate_inf, lines 52-106: the dataset, the prediction, the shape lookup or
\* the decoding raises (lines 52-82), or np.save does (line 89) after the
\* assignment of lines 84-86, or the binarization or dice_scores_img does
\* (lines 94-101) after the save, or the print (line 104) after the append
InfImageFail ==
    /\ pc = "inf_validate"
    /\ k < Len(val_images)
    /\ \E stage \in {"predict", "score", "print"}
                      \cup (IF inf_args.save THEN {"np.save"} ELSE {}) :
         IF stage = "predict"
         THEN UNCHANGED <<global_threshold, files, call_scores>>
         ELSE \E threshold \in IF inf_args.use_full_size
                               THEN {FullSizeThreshold} ELSE TunedThresholds :
                /\ global_threshold' =
                       IF global_threshold # None THEN global_threshold
                       ELSE Some(threshold)
                /\ files' = IF inf_args.save /\ stage # "np.save"
                            THEN WriteFile(files, InfPredPath(val_images[k + 1]),
                                           Data("pred", i, val_images[k + 1]))
                            ELSE files
                /\ call_scores' =
                       IF stage = "print"
                       THEN Append(call_scores,
                                   DiceScore(loaded[1], val_images[k + 1],
                                             global_threshold'[1]))
                       ELSE call_scores
    /\ raised' = Some([in |-> "validate_inf", fold |-> i])
    /\ pc' = Propagate("inf_validate")
    /\ k' = IF pc' = "failed" THEN k ELSE k + 1
    /\ UNCHANGED <<inputVars, i, cvs, df_train, df_val, held, meter, history,
                   val_images, scores, thresholds, started, validated, kf_result,
                   report, inf_args, built, loaded, loads, call_log, inf_scores,
                   inf_result>>

\* validate_inf line 108 returns; line 149: scores += ...
InfValidateReturn ==
    /\ pc = "inf_validate"
    /\ k = Len(val_images)
    /\ inf_scores' = ExtendScores(inf_scores, call_scores)
    /\ call_scores' = <<>>
    /\ call_log' = <<>>
    /\ global_threshold' = None
    /\ pc' = "inf_next"
    /\ UNCHANGED <<inputVars, i, cvs, df_train, df_val, held, meter, history,
                   val_images, k, scores, thresholds, files, started, validated,
                   kf_result, report, inf_args, built, loaded, loads, inf_result,
                   raised>>

\* the next turn of the loop of line 129
InfNext ==
    /\ pc = "inf_next"
    /\ i' = i + 1
    /\ pc' = "inf_loop"
    /\ UNCHANGED <<inputVars, cvs, df_train, df_val, held, meter, history, val_images,
                   k, scores, thresholds, files, started, validated, kf_result, report,
                   infVars, raised>>

\* line 162: return scores
InfReturn ==
    /\ pc = "inf_loop"
    /\ i = NFolds
    /\ inf_result' = Some(inf_scores)
    /\ held' = {}
    /\ loaded' = None
    /\ pc' = "inf_done"
    /\ UNCHANGED <<inputVars, i, cvs, df_train, df_val, meter, history, val_images, k,
                   scores, thresholds, files, started, validated, kf_result, report,
                   inf_args, built, loads, global_threshold, call_log, call_scores,
                   inf_scores, raised>>

NextKFoldInf ==
    \/ KFoldInfStart
    \/ InfSkip
    \/ InfDefineModel
    \/ InfDefineFail
    \/ InfBindModel
    \/ InfLoadWeights
    \/ InfLoadFail
    \/ InfEnterFail
    \/ InfImage
    \/ InfImageFail
    \/ InfValidateReturn
    \/ InfNext
    \/ InfReturn

Next == NextKFold \/ NextKFoldInf

\* a k_fold run followed by a k_fold_inf run
Spec == Init /\ [][Next]_vars

\* a k_fold run alone
SpecKFold == Init /\ [][NextKFold]_vars

-----------------------------------------------------------------------------
(* Properties *)

\* the selected fold indices that name a fold of df
SelectedInRange == config.selected_folds \cap (0..(NFolds - 1))

\* the members of a set of integers in ascending order
Ascending(S) ==
    CHOOSE s \in [1..Cardinality(S) -> S] : \A a, b \in 1..Cardinality(S) : a < b => s[a] < s[b]

Last(s) == s[Len(s)]

\* C1: k_fold handles folds one after another in ascending index: every fold it
\* starts is a selected index below the number of folds, the started indices
\* strictly increase, validations return in the order of the starts, and at most
\* the last started fold is not validated yet - and then the run is validating
\* that fold (or has failed in it).
C1_FoldsSequentialAscending ==
    /\ \A a \in 1..Len(started) : started[a] \in SelectedInRange
    /\ \A a, b \in 1..Len(started) : a < b => started[a] < started[b]
    /\ Len(validated) <= Len(started)
    /\ Len(started) <= Len(validated) + 1
    /\ \A a \in 1..Len(validated) : validated[a] = started[a]
    /\ Len(started) > Len(validated) =>
          /\ pc \in {"kf_validate", "failed"}
          /\ Last(started) = i

\* C1 witness: a second fold has been trained after the first was validated
C1_Witness ==
    /\ pc = "kf_validate"
    /\ Len(started) = 2
    /\ Len(validated) = 1
    /\ k = 1

\* C2 as claimed: a k_fold run that ends without failure and has two or more
\* selected folds validates every selected fold and reports over one final Dice
\* per selected fold, and the early return happens only with exactly one
\* selected fold.
C2_Original ==
    /\ (kf_result \in {"meter", "reported"} /\ Cardinality(SelectedInRange) >= 2) =>
          /\ kf_result = "reported"
          /\ validated = Ascending(SelectedInRange)
          /\ report = Some([a \in 1..Len(validated) |-> FinalDice(validated[a])])
    /\ kf_result = "meter" => Cardinality(SelectedInRange) = 1

\* C2 amended: the same for runs with a log folder, and the early return happens
\* only without a log folder or when config.selected_folds has one element.
C2_ReportWithLogFolder ==
    /\ (/\ kf_result \in {"meter", "reported"}
        /\ Cardinality(SelectedInRange) >= 2
        /\ log_folder # None) =>
          /\ kf_result = "reported"
          /\ validated = Ascending(SelectedInRange)
          /\ report = Some([a \in 1..Len(validated) |-> FinalDice(validated[a])])
    /\ kf_result = "meter" =>
          \/ log_folder = None
          \/ Cardinality(config.selected_folds) = 1

\* C2 witness: two folds were trained and validated and the average reported
C2_Witness ==
    /\ kf_result = "reported"
    /\ log_folder # None
    /\ Len(report[1]) = 2
    /\ pc = "kf_returned"

\* the (fold, image) pairs k_fold_inf has to score for the folds below n
RECURSIVE ExpectedPairs(_)
ExpectedPairs(n) ==
    IF n = 0 THEN <<>>
    ELSE LET imgs == ValImages(DfVal(FoldAt(n - 1)))
         IN  ExpectedPairs(n - 1) \o
             (IF n - 1 \in config.selected_folds
              THEN [j \in 1..Len(imgs) |-> [fold |-> n - 1, img |-> imgs[j]]]
              ELSE <<>>)

\* what must hold once a collaborator has raised
FailureHalts ==
    raised # None =>
        /\ pc = "failed"
        /\ inf_result = None
        /\ raised[1].in \in {"train", "k_fold", "validate", "save"} =>
              /\ kf_result = "failed"
              /\ report = None
              /\ Last(started) = raised[1].fold
              /\ Cardinality({a \in 1..Len(started) : started[a] = raised[1].fold}) = 1
              /\ raised[1].in # "save" => raised[1].fold \notin Range(validated)
              /\ built = {}
              /\ raised[1].in = "validate" => Len(scores) \in {k, k + 1}
              /\ i = raised[1].fold
        /\ raised[1].in \in {"define_model", "load_model_weights", "validate_inf"} =>
              /\ \A b \in built : b <= raised[1].fold
              /\ \A l \in loads : l.fold <= raised[1].fold
              /\ raised[1].in = "validate_inf" => Len(call_scores) \in {k, k + 1}
              /\ Len(inf_scores) = Len(ExpectedPairs(raised[1].fold))
              /\ i = raised[1].fold

\* C3: a failure in training, validation, loading or scoring leaves the
\* orchestrator: the failing fold is not tried again, nothing is reported or
\* returned, and after the failure no step is taken at all (no later fold, no
\* later image).
C3_FailurePropagates == [](FailureHalts) /\ [][raised = None]_vars

\* C3 witness: validation of a fold failed on its second image while a later
\* selected fold was still to come
C3_Witness ==
    /\ raised # None
    /\ raised[1].in = "validate"
    /\ k = 1
    /\ \E later \in SelectedInRange : later > raised[1].fold
    /\ log_folder # None

\* C4 as claimed: at every point of a run the orchestrator in hand holds at
\* most one fold's model.
C4_AtMostOneModelHeld == Cardinality(held) <= 1

\* C5 as claimed: while validate runs, and when it returns, scores and
\* thresholds have one entry per image processed, and entry j of scores is the
\* Dice score of the j-th image.
C5_ValidateListsPerImage ==
    pc = "kf_validate" =>
        /\ Len(scores) = k
        /\ Len(thresholds) = k
        /\ \A j \in 1..k : scores[j] = [kind |-> "score", img |-> val_images[j]]
        /\ \A j \in 1..k : thresholds[j] \in TunedThresholds

\* C6: for the fold k_fold has in hand, df_train and df_val are disjoint and
\* together hold every row of df, no value of cv_column occurs on both sides,
\* and every row of df is a validation row of exactly one fold.
C6_FoldsPartitionRecords ==
    /\ pc \in {"kf_validate", "kf_release", "kf_save", "kf_check"} =>
          /\ Range(df_train) \cap Range(df_val) = {}
          /\ Range(df_train) \cup Range(df_val) = Range(df)
          /\ Len(df_train) + Len(df_val) = Len(df)
          /\ \A r \in Range(df_train) : \A q \in Range(df_val) : r.cv # q.cv
    /\ \A r \in Range(df) :
          Cardinality({a \in 0..(NFolds - 1) : r \in Range(DfVal(FoldAt(a)))}) = 1

\* C6 witness: a fold with two validation rows and a training row is in hand
C6_Witness ==
    /\ pc = "kf_validate"
    /\ Len(df_val) = 2
    /\ Len(df_train) = 1
    /\ i = 1

\* C7: whenever k_fold_inf is about to load, the weights file name is injective
\* in the fold index and the path it loads for fold a is the path train saved
\* fold a under; every
\* weights file holds the weights of the fold in its name, and every load
\* k_fold_inf made for fold a got the weights trained for fold a.
C7_WeightsKeyedByFold ==
    /\ pc = "inf_load" =>
          \A a, b \in 0..(MaxCv + 10) : a < b => TrainWeightsName(a) # TrainWeightsName(b)
    /\ (pc = "inf_load" /\ log_folder # None) =>
          \A a \in 0..(MaxCv + 10) :
              InfWeightsPath(a) = SaveModelWeightsPath(log_folder[1], TrainWeightsName(a))
    /\ (log_folder # None /\ config.save_weights) =>
          \A a \in 1..Len(cvs) :
              /\ InfWeightsPath(cvs[a].dice_of_fold) \in Paths(files)
              /\ FileAt(files, InfWeightsPath(cvs[a].dice_of_fold)).data
                     = Data("weights", cvs[a].dice_of_fold, <<>>)
    /\ \A l \in loads : l.data = Data("weights", l.fold, <<>>)

\* C7 witness: k_fold_inf has loaded the weights of two folds
C7_Witness ==
    /\ \E l1, l2 \in loads : l1.fold # l2.fold
    /\ pc = "inf_validate"

\* C8 as claimed: with an override every image of the call is scored at the
\* override; without one every image is scored at the threshold determined
\* for that image.
C8_ThresholdOfSameImage ==
    \A j \in 1..Len(call_log) :
        IF inf_args.global_threshold # None
        THEN call_log[j].used = inf_args.global_threshold[1]
        ELSE call_log[j].used = call_log[j].threshold

\* C9: the list k_fold_inf returns holds one Dice score per validation image of
\* each selected fold, computed with that fold's weights, in ascending fold
\* order and within a fold in the order of its validation images; no model is
\* built and no weights are loaded for a fold that is not selected.
C9_InfScoresPerImage ==
    /\ inf_result # None =>
          [j \in 1..Len(inf_result[1]) |->
              [fold |-> inf_result[1][j].weights.fold, img |-> inf_result[1][j].img]]
            = ExpectedPairs(NFolds)
    /\ inf_result # None =>
          \A j \in 1..Len(inf_result[1]) : inf_result[1][j].weights.kind = "weights"
    /\ built \subseteq SelectedInRange
    /\ \A l \in loads : l.fold \in SelectedInRange

\* C9 witness: scores of two folds, one of them with two images, were returned
C9_Witness ==
    /\ inf_result # None
    /\ Len(inf_result[1]) = 3
    /\ Cardinality(built) = 2

\* the validation images of fold a
FoldImages(a) == ValImages(DfVal(FoldAt(a)))

\* fold a has passed the save of lines 178-180 (it has not when the save raised)
PastSave(a) ==
    /\ a \in Range(validated)
    /\ ~(a = i /\ pc \in {"kf_release", "kf_save"})
    /\ ~(raised # None /\ raised[1] = [in |-> "save", fold |-> a])

\* C10: without a log folder no file is ever written; with one, every fold that
\* was trained and validated has its pred_mask and history files, written by
\* the time k_fold returns or goes on to the next fold, and every image
\* validate has processed has its global_pred file.
C10_ArtifactsIffLogFolder ==
    /\ log_folder = None => files = {}
    /\ log_folder # None =>
          /\ \A a \in 0..(NFolds - 1) : PastSave(a) =>
                /\ PredMaskPath(a) \in Paths(files)
                /\ FileAt(files, PredMaskPath(a)).data = Data("pred_mask", a, <<>>)
                /\ HistoryPath(a) \in Paths(files)
                /\ FileAt(files, HistoryPath(a)).data = Data("history", a, <<>>)
          /\ \A a \in Range(validated) : \A j \in 1..Len(FoldImages(a)) :
                GlobalPredPath(FoldImages(a)[j]) \in Paths(files)
          /\ pc = "kf_validate" => \A j \in 1..k :
                GlobalPredPath(val_images[j]) \in Paths(files)

\* C10 witness: the single-fold early return with a log folder, the fold's two
\* images validated
C10_Witness ==
    /\ log_folder # None
    /\ kf_result = "meter"
    /\ pc = "kf_returned"
    /\ Len(val_images) = 2
    /\ Cardinality(files) >= 4

====
